---- MODULE Spec2Model ----
(***************************************************************************)
(* Model of misago/threads/views/generic/forum.py: the ForumFiltering      *)
(* helper, the ForumThreads query builder and ForumView.dispatch.          *)
(*                                                                         *)
(* A Python object is a function from its attribute names to their values: *)
(* an attribute that was never assigned is absent from the DOMAIN, and     *)
(* reading it is the AttributeError the interpreter raises.  A dict is a   *)
(* function from its keys.  Python's None is the string None below, which  *)
(* no URL parameter and no label slug can equal.                           *)
(***************************************************************************)
EXTENDS Integers, Sequences, FiniteSets, TLC

VARIABLES
    forum,       \* forum.acl, forum.labels, forum.thread_set
    user,        \* request.user: id, authenticated
    filtering,   \* the ForumFiltering instance
    threads,     \* the ForumThreads instance
    ret,         \* the outcome of the last call: what it returned or raised
    pc,          \* the statement of ForumView.dispatch to run next
    kwargs,      \* dispatch's kwargs: the keyword arguments of the url
    cleaned_kwargs, \* dispatch's local cleaned_kwargs
    page_number, \* dispatch's local page_number
    sorting,     \* dispatch's local sorting, the Sorting instance
    calls        \* the outcomes of dispatch's calls on the Threads instance

env == <<forum, user>>
locals == <<kwargs, page_number, sorting, calls>>
vars == <<forum, user, filtering, threads, ret, pc, kwargs, cleaned_kwargs,
          page_number, sorting, calls>>

None == "<None>"

(***************************************************************************)
(* Bounds of the model.                                                    *)
(***************************************************************************)
MaxLabels == 2
MaxFree == 2

Min(a, b) == IF a < b THEN a ELSE b
Max(a, b) == IF a > b THEN a ELSE b

(***************************************************************************)
(* Python helpers.                                                         *)
(***************************************************************************)
NoObject == [k \in {} |-> None]
HasAttr(obj, a) == a \in DOMAIN obj
SetAttr(obj, a, v) == [k \in DOMAIN obj \cup {a} |-> IF k = a THEN v ELSE obj[k]]
DictGet(d, k) == IF k \in DOMAIN d THEN d[k] ELSE None
DictPop(d, k) == [j \in DOMAIN d \ {k} |-> d[j]]
Truthy(v) == v # None /\ v # ""

\* The outcome of a call: the value it returned or the exception it raised.
Returned(op, v) == [op |-> op, val |-> v]
Raised(op, type, message) == [op |-> op, exc |-> [type |-> type, message |-> message]]

\* django.core.urlresolvers.reverse: the url is a function of the route name
\* and the keyword arguments alone.
reverse(link_name, kw) == <<link_name, kw>>

(***************************************************************************)
(* ForumFiltering                                                          *)
(***************************************************************************)
MyThreadsFilter ==
    [type |-> "my-threads", name |-> "My threads", is_label |-> FALSE]
ReportedFilter ==
    [type |-> "reported", name |-> "With reported posts", is_label |-> FALSE]
ModeratedThreadsFilter ==
    [type |-> "moderated-threads", name |-> "Moderated threads", is_label |-> FALSE]
ModeratedPostsFilter ==
    [type |-> "moderated-posts", name |-> "With moderated posts", is_label |-> FALSE]
LabelFilter(label) ==
    [type |-> label.slug, name |-> label.name, is_label |-> TRUE,
     css_class |-> label.css_class]

\* A slip in the reports gate: the wrong ACL flag is read.
get_available_filters_wrong_flag(f) ==
    (IF f.acl.can_see_all_threads THEN <<MyThreadsFilter>> ELSE <<>>)
    \o (IF f.acl.can_see_all_threads THEN <<ReportedFilter>> ELSE <<>>)
    \o (IF f.acl.can_review_moderated_content
           THEN <<ModeratedThreadsFilter, ModeratedPostsFilter>> ELSE <<>>)
    \o [i \in 1..Len(f.labels) |-> LabelFilter(f.labels[i])]

get_available_filters(f) ==
    (IF f.acl.can_see_all_threads THEN <<MyThreadsFilter>> ELSE <<>>)
    \o (IF f.acl.can_see_reports THEN <<ReportedFilter>> ELSE <<>>)
    \o (IF f.acl.can_review_moderated_content
           THEN <<ModeratedThreadsFilter, ModeratedPostsFilter>> ELSE <<>>)
    \o [i \in 1..Len(f.labels) |-> LabelFilter(f.labels[i])]

\* ForumFiltering.__init__
NewFiltering(f, link_name, link_params) ==
    [link_name |-> link_name, link_params |-> link_params,
     filters |-> get_available_filters(f)]

AvailableTypes(self) == {self.filters[i].type : i \in 1..Len(self.filters)}

\* clean_kwargs: the instance afterwards, and the kwargs it returns.  In the
\* branch that pops 'show' nothing is assigned to self.show.
CleanKwargsSelf(self, kw) ==
    LET show == DictGet(kw, "show") IN
    IF Truthy(show)
        THEN IF show \in AvailableTypes(self)
                THEN SetAttr(self, "show", show)
                ELSE self
        ELSE SetAttr(self, "show", None)

CleanKwargsResult(self, kw) ==
    LET show == DictGet(kw, "show") IN
    IF Truthy(show) /\ show \notin AvailableTypes(self)
        THEN DictPop(kw, "show")
        ELSE kw

\* create_dicts: the default entry, then every filter with its url; the url
\* is written into the filter dicts themselves, and link_params is left
\* holding the last 'show'.
DefaultDict(self, f) ==
    [type |-> None,
     url |-> reverse(self.link_name, DictPop(self.link_params, "show")),
     name |-> IF f.acl.can_see_all_threads THEN "All threads" ELSE "Your threads",
     is_label |-> FALSE]

WithUrl(self, filt) ==
    SetAttr(filt, "url",
            reverse(self.link_name, SetAttr(self.link_params, "show", filt.type)))

create_dicts(self, f) ==
    <<DefaultDict(self, f)>>
    \o [i \in 1..Len(self.filters) |-> WithUrl(self, self.filters[i])]

AfterCreateDicts(self, f) ==
    LET n == Len(self.filters)
        lp == IF n = 0 THEN DictPop(self.link_params, "show")
              ELSE SetAttr(self.link_params, "show", self.filters[n].type)
    IN [SetAttr(self, "_dicts", create_dicts(self, f)) EXCEPT
            !.link_params = lp,
            !.filters = [i \in 1..n |-> WithUrl(self, self.filters[i])]]

\* get_filtering_dics: the cached list, built on the first call.
AfterGetFilteringDics(self, f) ==
    IF HasAttr(self, "_dicts") THEN self ELSE AfterCreateDicts(self, f)

get_filtering_dics(self, f) == AfterGetFilteringDics(self, f)["_dicts"]

\* The index of the first entry whose type equals show, 0 when there is none.
FirstOfType(dicts, show) ==
    IF \E i \in 1..Len(dicts) : dicts[i].type = show
        THEN CHOOSE i \in 1..Len(dicts) :
                /\ dicts[i].type = show
                /\ \A j \in 1..(i - 1) : dicts[j].type # show
        ELSE 0

\* choices(): every entry whose type differs from show, or all but the first
\* entry when no filter is active.
choices(self, f) ==
    LET dicts == get_filtering_dics(self, f) IN
    IF Truthy(self.show)
        THEN SelectSeq(dicts, LAMBDA d : d.type # self.show)
        ELSE SubSeq(dicts, 2, Len(dicts))

\* current: the cached entry, else the first entry whose type equals show
\* (cached on the way out); None when the loop finds no such entry.
current(self, f) ==
    IF HasAttr(self, "_current") THEN self["_current"]
    ELSE LET dicts == get_filtering_dics(self, f)
             i == FirstOfType(dicts, self.show)
         IN IF i = 0 THEN None ELSE dicts[i]

AfterCurrent(self, f) ==
    IF HasAttr(self, "_current") THEN self
    ELSE LET loaded == AfterGetFilteringDics(self, f)
             dicts == loaded["_dicts"]
             i == FirstOfType(dicts, self.show)
         IN IF i = 0 THEN loaded ELSE SetAttr(loaded, "_current", dicts[i])

(***************************************************************************)
(* The thread table.  misago.threads.models is not part of the sources:    *)
(* the weights are the model's (announcements weigh most), a thread's      *)
(* starter_id and label_id are nullable foreign keys, and the anonymous    *)
(* user's id is None, which an exact lookup matches against NULL.          *)
(***************************************************************************)
ANNOUNCEMENT == 2
PINNED == 1

Thread(id, weight, starter_id, visible, reported, moderated, modposts, label_id, replies) ==
    [id |-> id, weight |-> weight, starter_id |-> starter_id,
     visible |-> visible, has_reported_posts |-> reported,
     is_moderated |-> moderated, has_moderated_posts |-> modposts,
     label_id |-> label_id, replies |-> replies]

\* misago.threads.permissions.exclude_invisible_threads: the rows of the
\* forum's thread_set this user may see.
exclude_invisible_threads(u, f, thread_set) ==
    SelectSeq(thread_set, LAMBDA t : t.visible)

\* QuerySet.filter(field=value): a queryset is the sequence of its rows.
QsFilter(queryset, lookup) ==
    SelectSeq(queryset, LAMBDA t : t[lookup.field] = lookup.value)

RECURSIVE QsFilterAll(_, _)
QsFilterAll(queryset, lookups) ==
    IF lookups = <<>> THEN queryset
    ELSE QsFilterAll(QsFilter(queryset, Head(lookups)), Tail(lookups))

Lookup(field, value, line) == [field |-> field, value |-> value, line |-> line]

(***************************************************************************)
(* ForumThreads                                                            *)
(***************************************************************************)
NewThreads == NoObject

\* One order_by term: a leading '-' is descending.  A sort selector is the
\* sequence <<"-", column>> or <<column>>.
Descending(term) == term[1] = "-"
Column(term) == IF Descending(term) THEN term[2] ELSE term[1]

\* ForumThreads.sort
\* A slip in sort: the weight is ascending whatever the selector says.
WeightTerm_always_ascending(sort_by) == <<"weight">>

WeightTerm(sort_by) == IF sort_by[1] = "-" THEN <<"-", "weight">> ELSE <<"weight">>
sort(self, sort_by) == SetAttr(self, "sort_by", <<WeightTerm(sort_by), sort_by>>)

\* ForumThreads.filter
filter(self, filter_by) == SetAttr(self, "filter_by", filter_by)

\* The first label whose slug is the filter key, 0 when there is none.
FirstLabel(labels, slug) ==
    IF \E i \in 1..Len(labels) : labels[i].slug = slug
        THEN CHOOSE i \in 1..Len(labels) :
                /\ labels[i].slug = slug
                /\ \A j \in 1..(i - 1) : labels[j].slug # slug
        ELSE 0

\* The lookups filter_threads puts on the queryset, in order, each with the
\* source line that applies it.
OwnThreadsLookups(f, u) ==
    IF f.acl.can_see_own_threads
        THEN IF u.authenticated
                THEN <<Lookup("starter_id", u.id, 182)>>
                ELSE <<Lookup("starter_id", "0", 184)>>
        ELSE <<>>

KeyLookups(self, f) ==
    IF self.filter_by = "reported"
        THEN <<Lookup("has_reported_posts", TRUE, 186)>>
    ELSE IF self.filter_by = "moderated-threads"
        THEN <<Lookup("is_moderated", TRUE, 188)>>
    ELSE IF self.filter_by = "moderated-posts"
        THEN <<Lookup("has_moderated_posts", TRUE, 190)>>
    ELSE LET i == FirstLabel(f.labels, self.filter_by) IN
         IF i # 0 THEN <<Lookup("label_id", f.labels[i].pk, 194)>> ELSE <<>>

FilterLookups(self, f, u) ==
    IF self.filter_by = "my-threads"
        THEN <<Lookup("starter_id", u.id, 178)>>
        ELSE OwnThreadsLookups(f, u) \o KeyLookups(self, f)

filter_threads(self, f, u, queryset) ==
    QsFilterAll(queryset, FilterLookups(self, f, u))

\* QuerySet.order_by(*terms).  Rows that agree on every term come back in an
\* order the database picks: tie ranks the rows it is free to permute.
TieRank(t, tie) == IF t.id \in DOMAIN tie THEN tie[t.id] ELSE t.id

RECURSIVE Precedes(_, _, _, _)
Precedes(a, b, terms, tie) ==
    IF terms = <<>> THEN TieRank(a, tie) < TieRank(b, tie)
    ELSE LET c == Column(Head(terms)) IN
         IF a[c] = b[c] THEN Precedes(a, b, Tail(terms), tie)
         ELSE IF Descending(Head(terms)) THEN a[c] > b[c] ELSE a[c] < b[c]

order_by(queryset, terms, tie) ==
    SortSeq(queryset, LAMBDA a, b : Precedes(a, b, terms, tie))

(***************************************************************************)
(* misago.core.shortcuts.paginate over django's Paginator: a page number   *)
(* that is not given is the first page; the last page absorbs up to        *)
(* `orphans` rows; a page outside the range is Http404.                    *)
(***************************************************************************)
NumPages(count, per_page, orphans) ==
    LET hits == Max(1, count - orphans) IN (hits + per_page - 1) \div per_page

Paginator(object_list, per_page, orphans) ==
    [count |-> Len(object_list), per_page |-> per_page, orphans |-> orphans,
     num_pages |-> NumPages(Len(object_list), per_page, orphans)]

PageNumber(page) == IF page = 0 THEN 1 ELSE page

PaginateOk(object_list, page, per_page, orphans) ==
    /\ PageNumber(page) >= 1
    /\ PageNumber(page) <= NumPages(Len(object_list), per_page, orphans)

paginate(object_list, page, per_page, orphans) ==
    LET number == PageNumber(page)
        count == Len(object_list)
        bottom == (number - 1) * per_page
        top == IF bottom + per_page + orphans >= count
                  THEN count ELSE bottom + per_page
    IN [number |-> number,
        object_list |-> SubSeq(object_list, bottom + 1, top),
        paginator |-> Paginator(object_list, per_page, orphans)]

PerPage == 20
Orphans == 10

\* ForumThreads.list, up to the two querysets it derives.
ListQueryset(self, f, u, tie) ==
    order_by(filter_threads(self, f, u,
                            exclude_invisible_threads(u, f, f.thread_set)),
             self.sort_by, tie)

\* A slip in list: pinned threads are taken with the announcements.
AnnouncementsQs_with_pinned(queryset) ==
    SelectSeq(queryset, LAMBDA t : t.weight >= PINNED)

AnnouncementsQs(queryset) == SelectSeq(queryset, LAMBDA t : t.weight = ANNOUNCEMENT)
ThreadsQs(queryset) == SelectSeq(queryset, LAMBDA t : t.weight < ANNOUNCEMENT)

\* The page list() stores in self._page, from the ordered queryset.
ListPage(queryset, pg) == paginate(ThreadsQs(queryset), pg, PerPage, Orphans)

ListOk(queryset, pg) == PaginateOk(ThreadsQs(queryset), pg, PerPage, Orphans)

\* The threads list() returns: every announcement, then the page's rows.
ListThreads(queryset, pg) ==
    AnnouncementsQs(queryset) \o ListPage(queryset, pg).object_list

AfterList(self, queryset, pg) ==
    LET p == ListPage(queryset, pg)
    IN SetAttr(SetAttr(self, "_page", p), "_paginator", p.paginator)

\* The class attribute error_message.
error_message ==
    "threads list has to be loaded via call to list() before pagination data will be available"

\* What the except branch of the page and paginator properties raises:
\* `error_message` is looked up as a global there, and the module has none.
NotLoaded(op) == Raised(op, "NameError", "error_message is not defined")

\* The page and paginator properties.
page(self) ==
    IF HasAttr(self, "_page") THEN Returned("page", self["_page"])
    ELSE NotLoaded("page")

paginator(self) ==
    IF HasAttr(self, "_paginator") THEN Returned("paginator", self["_paginator"])
    ELSE NotLoaded("paginator")

(***************************************************************************)
(* The inputs: ACLs, labels, users, url kwargs, thread tables.             *)
(***************************************************************************)
Acls ==
    [can_see_all_threads : BOOLEAN, can_see_own_threads : BOOLEAN,
     can_see_reports : BOOLEAN, can_review_moderated_content : BOOLEAN]

\* Label slugs are free text: nothing keeps one from being a built-in key.
Slugs == <<"bug", "reported", "my-threads">>
Pks == <<"1", "2", "3">>
Label(i) == [pk |-> Pks[i], slug |-> Slugs[i], name |-> Slugs[i], css_class |-> ""]

LabelLists ==
    UNION {{[i \in 1..n |-> Label(ix[i])] :
               ix \in {f \in [1..n -> 1..Len(Slugs)] :
                          \A i, j \in 1..n : i # j => f[i] # f[j]}} :
           n \in 0..Min(MaxLabels, Len(Slugs))}

Anonymous == [id |-> None, authenticated |-> FALSE]
Member == [id |-> "1", authenticated |-> TRUE]
Users == {Anonymous, Member}

FilterKeys ==
    {"my-threads", "reported", "moderated-threads", "moderated-posts", "bug", "bogus"}
ShowParams == FilterKeys \cup {""}
SortBys == {<<"replies">>, <<"-", "replies">>}
PageArgs == 0..3

BaseKwargs == [forum_slug |-> "general", forum_id |-> "1"]
Kwargs == {BaseKwargs} \cup {SetAttr(BaseKwargs, "show", s) : s \in ShowParams}

(***************************************************************************)
(* The ForumFiltering instance on its own: constructed as dispatch does    *)
(* (from the cleaned kwargs), clean_kwargs called once, the other methods  *)
(* and properties read in any order, as the template may.                  *)
(***************************************************************************)
InitFiltering ==
    /\ forum \in [acl : Acls, labels : LabelLists, thread_set : {<<>>}]
    /\ user = Member
    /\ cleaned_kwargs \in Kwargs
    /\ filtering = NewFiltering(forum, "misago:forum", cleaned_kwargs)
    /\ threads = NewThreads
    /\ ret = [op |-> "__init__"]
    /\ pc = "new"
    /\ kwargs = cleaned_kwargs
    /\ page_number = None
    /\ sorting = NoObject
    /\ calls = <<>>

FilteringCleanKwargs ==
    /\ pc = "new"
    /\ pc' = "cleaned"
    /\ filtering' = CleanKwargsSelf(filtering, cleaned_kwargs)
    /\ cleaned_kwargs' = CleanKwargsResult(filtering, cleaned_kwargs)
    /\ ret' = Returned("clean_kwargs", cleaned_kwargs')
    /\ UNCHANGED <<env, threads, locals>>

\* ForumFiltering.filter(threads)
FilteringFilter ==
    /\ IF HasAttr(filtering, "show")
          THEN /\ threads' = filter(threads, filtering.show)
               /\ ret' = Returned("filter", None)
          ELSE /\ ret' = Raised("filter", "AttributeError", "show")
               /\ UNCHANGED threads
    /\ UNCHANGED <<env, filtering, pc, cleaned_kwargs, locals>>

FilteringGetFilteringDics ==
    /\ filtering' = AfterGetFilteringDics(filtering, forum)
    /\ ret' = Returned("get_filtering_dics", get_filtering_dics(filtering, forum))
    /\ UNCHANGED <<env, threads, pc, cleaned_kwargs, locals>>

FilteringIsActive ==
    /\ ret' = IF HasAttr(filtering, "show")
                 THEN Returned("is_active", Truthy(filtering.show))
                 ELSE Raised("is_active", "AttributeError", "show")
    /\ UNCHANGED <<env, filtering, threads, pc, cleaned_kwargs, locals>>

\* The current property: a cached entry is returned as is; otherwise the
\* dicts are built and the loop reads self.show on its first entry.
FilteringCurrent ==
    /\ IF HasAttr(filtering, "_current") \/ HasAttr(filtering, "show")
          THEN /\ filtering' = AfterCurrent(filtering, forum)
               /\ ret' = Returned("current", current(filtering, forum))
          ELSE /\ filtering' = AfterGetFilteringDics(filtering, forum)
               /\ ret' = Raised("current", "AttributeError", "show")
    /\ UNCHANGED <<env, threads, pc, cleaned_kwargs, locals>>

FilteringChoices ==
    /\ IF HasAttr(filtering, "show")
          THEN /\ filtering' = AfterGetFilteringDics(filtering, forum)
               /\ ret' = Returned("choices", choices(filtering, forum))
          ELSE /\ ret' = Raised("choices", "AttributeError", "show")
               /\ UNCHANGED filtering
    /\ UNCHANGED <<env, threads, pc, cleaned_kwargs, locals>>

NextFiltering ==
    \/ FilteringCleanKwargs
    \/ FilteringFilter
    \/ FilteringGetFilteringDics
    \/ FilteringIsActive
    \/ FilteringCurrent
    \/ FilteringChoices

SpecFiltering == InitFiltering /\ [][NextFiltering]_vars

(***************************************************************************)
(* The ForumThreads instance on its own.  Two families of thread tables:   *)
(* one row with every combination of the columns the filters read, and up  *)
(* to MaxFree rows of any weight among enough plain rows to fill a page.   *)
(***************************************************************************)
NullableIds == {None, "1", "2"}

FilterRows ==
    {Thread(1, 0, s, v, r, m, mp, l, 1) :
        s \in NullableIds, v \in BOOLEAN, r \in BOOLEAN, m \in BOOLEAN,
        mp \in BOOLEAN, l \in NullableIds}

FilterTables == {<<>>} \cup {<<t>> : t \in FilterRows}

\* Row i of a plain filler: a regular thread of the member, replies unique.
Filler(i) == Thread(100 + i, 0, "1", TRUE, FALSE, FALSE, FALSE, None, 10 + i)
Fillers(n) == [i \in 1..n |-> Filler(i)]
FillerCounts == {0, PerPage + Orphans}

FreeRow(i, weight, replies) ==
    Thread(i, weight, "1", TRUE, FALSE, FALSE, FALSE, None, replies)

\* Tables that differ in the storage order of their free rows list alike
\* (order_by ranks every row, ties by TieBreaks): one order of each is kept.
FreeKinds == <<<<0, 1>>, <<0, 2>>, <<PINNED, 1>>, <<PINNED, 2>>,
               <<ANNOUNCEMENT, 1>>, <<ANNOUNCEMENT, 2>>>>

FreeTables ==
    UNION {{[i \in 1..n |-> FreeRow(i, FreeKinds[k[i]][1], FreeKinds[k[i]][2])] :
               k \in {f \in [1..n -> 1..Len(FreeKinds)] :
                         \A i \in 1..(n - 1) : f[i] <= f[i + 1]}} :
           n \in 0..MaxFree}

PagingTables == {free \o Fillers(k) : free \in FreeTables, k \in FillerCounts}

\* The orders the database may give rows that tie: any order of the free rows.
TieBreaks == Permutations(1..MaxFree)

OwnAcls ==
    {a \in Acls : a.can_see_reports /\ a.can_review_moderated_content}
NoAcl ==
    [can_see_all_threads |-> TRUE, can_see_own_threads |-> FALSE,
     can_see_reports |-> TRUE, can_review_moderated_content |-> TRUE]

InitThreadsCommon ==
    /\ filtering = NewFiltering(forum, "misago:forum", BaseKwargs)
    /\ threads = NewThreads
    /\ ret = [op |-> "__init__"]
    /\ pc = "new"
    /\ cleaned_kwargs = BaseKwargs
    /\ kwargs = BaseKwargs
    /\ page_number = None
    /\ sorting = NoObject
    /\ calls = <<>>

InitFilterTables ==
    /\ forum \in [acl : OwnAcls,
                  labels : {<<Label(1)>>, <<Label(2), Label(1)>>},
                  thread_set : FilterTables]
    /\ user \in Users
    /\ InitThreadsCommon

InitPagingTables ==
    /\ forum \in [acl : {NoAcl}, labels : {<<>>}, thread_set : PagingTables]
    /\ user = Member
    /\ InitThreadsCommon

InitThreads == InitFilterTables \/ InitPagingTables

\* A fresh instance is filtered and sorted, then listed once (dispatch
\* makes one Threads per request); page and paginator are read at any time.
ThreadsFilter(filter_by) ==
    /\ ~HasAttr(threads, "_page")
    /\ threads' = filter(threads, filter_by)
    /\ ret' = Returned("filter", None)
    /\ UNCHANGED <<env, filtering, pc, cleaned_kwargs, locals>>

ThreadsSort(sort_by) ==
    /\ ~HasAttr(threads, "_page")
    /\ threads' = sort(threads, sort_by)
    /\ ret' = Returned("sort", None)
    /\ UNCHANGED <<env, filtering, pc, cleaned_kwargs, locals>>

\* list(page): what it returns or raises (with the lookups filter_threads
\* applied on the way), and the instance afterwards.  filter_threads reads
\* self.filter_by and order_by reads self.sort_by; paginate raises before
\* _page is assigned.
ListReady(self) == HasAttr(self, "filter_by") /\ HasAttr(self, "sort_by")

ListOutcome(self, f, u, pg, tie) ==
    IF ~HasAttr(self, "filter_by") THEN Raised("list", "AttributeError", "filter_by")
    ELSE LET lookups == [lookups |-> FilterLookups(self, f, u)] IN
         IF ~HasAttr(self, "sort_by")
             THEN Raised("list", "AttributeError", "sort_by") @@ lookups
         ELSE LET queryset == ListQueryset(self, f, u, tie) IN
              IF ListOk(queryset, pg)
                  THEN Returned("list", ListThreads(queryset, pg)) @@ lookups
                  ELSE Raised("list", "Http404", "") @@ lookups

ListSelf(self, f, u, pg, tie) ==
    IF ListReady(self)
        THEN LET queryset == ListQueryset(self, f, u, tie) IN
             IF ListOk(queryset, pg) THEN AfterList(self, queryset, pg) ELSE self
        ELSE self

ThreadsList(pg, tie) ==
    /\ ~HasAttr(threads, "_page")
    /\ ret' = ListOutcome(threads, forum, user, pg, tie)
    /\ threads' = ListSelf(threads, forum, user, pg, tie)
    /\ UNCHANGED <<env, filtering, pc, cleaned_kwargs, locals>>

ThreadsPage ==
    /\ ret' = page(threads)
    /\ UNCHANGED <<env, filtering, threads, pc, cleaned_kwargs, locals>>

ThreadsPaginator ==
    /\ ret' = paginator(threads)
    /\ UNCHANGED <<env, filtering, threads, pc, cleaned_kwargs, locals>>

NextThreads ==
    \/ \E filter_by \in FilterKeys \cup {None} : ThreadsFilter(filter_by)
    \/ \E sort_by \in SortBys : ThreadsSort(sort_by)
    \/ \E pg \in PageArgs, tie \in TieBreaks : ThreadsList(pg, tie)
    \/ ThreadsPage
    \/ ThreadsPaginator

SpecThreads == InitThreads /\ [][NextThreads]_vars

(***************************************************************************)
(* ForumView.dispatch, one statement at a time.  ThreadsView.clean_kwargs  *)
(* and the Sorting helper are not part of the sources: clean_kwargs hands  *)
(* back a copy of the kwargs, and Sorting drops a 'sort' it does not know  *)
(* and always settles on a sort selector.                                  *)
(***************************************************************************)
ViewCleanKwargs(kw) == kw

DefaultSortBy == <<"-", "replies">>
SortingChoices == {"least-replied"}
SortingSortBy(name) == IF name = "least-replied" THEN <<"replies">> ELSE DefaultSortBy

NewSorting(link_name, link_params) ==
    [link_name |-> link_name, link_params |-> link_params]

SortingCleanKwargsSelf(self, kw) ==
    LET name == DictGet(kw, "sort") IN
    SetAttr(self, "sort_by",
            IF Truthy(name) /\ name \in SortingChoices
                THEN SortingSortBy(name) ELSE DefaultSortBy)

SortingCleanKwargsResult(self, kw) ==
    LET name == DictGet(kw, "sort") IN
    IF Truthy(name) /\ name \notin SortingChoices THEN DictPop(kw, "sort") ELSE kw

\* The statements of dispatch from the Threads instance on, in source order.
\* A slip in dispatch: the page is read before the list is loaded.
DispatchOrder_page_before_list ==
    <<"sort", "filter", "compare", "page", "list", "paginator", "render">>

DispatchOrder == <<"sort", "filter", "compare", "list", "page", "paginator", "render">>

After(step) ==
    LET i == CHOOSE k \in 1..Len(DispatchOrder) : DispatchOrder[k] = step
    IN DispatchOrder[i + 1]

ViewKwargs ==
    {kw @@ so @@ pg :
        kw \in Kwargs,
        so \in {NoObject, [sort |-> "least-replied"], [sort |-> "bogus"]},
        pg \in {NoObject, [page |-> "2"]}}

ViewTables ==
    {<<>>, <<Thread(1, 0, None, TRUE, TRUE, FALSE, FALSE, None, 1)>>}

Init ==
    /\ forum \in [acl : Acls, labels : LabelLists, thread_set : ViewTables]
    /\ user \in Users
    /\ kwargs \in ViewKwargs
    /\ filtering = NoObject
    /\ threads = NoObject
    /\ sorting = NoObject
    /\ cleaned_kwargs = NoObject
    /\ page_number = None
    /\ ret = [op |-> "request"]
    /\ pc = "parse"
    /\ calls = <<>>

\* Lines 235-239: pop the page, copy the kwargs, let Sorting clean them.
DispatchParse ==
    /\ pc = "parse"
    /\ page_number' = DictGet(kwargs, "page")
    /\ kwargs' = DictPop(kwargs, "page")
    /\ LET cleaned == ViewCleanKwargs(kwargs')
           new == NewSorting("misago:forum", cleaned)
       IN /\ sorting' = SortingCleanKwargsSelf(new, cleaned)
          /\ cleaned_kwargs' = SortingCleanKwargsResult(new, cleaned)
    /\ pc' = "filtering"
    /\ UNCHANGED <<env, filtering, threads, ret, calls>>

\* Lines 241-242: the Filtering instance, and its clean_kwargs.
DispatchFiltering ==
    /\ pc = "filtering"
    /\ LET new == NewFiltering(forum, "misago:forum", cleaned_kwargs)
       IN /\ filtering' = CleanKwargsSelf(new, cleaned_kwargs)
          /\ cleaned_kwargs' = CleanKwargsResult(new, cleaned_kwargs)
    /\ pc' = "sort"
    /\ UNCHANGED <<env, threads, ret, kwargs, page_number, sorting, calls>>

\* Lines 244-245: the Threads instance, and sorting.sort(threads).
DispatchSort ==
    /\ pc = "sort"
    /\ threads' = sort(NewThreads, sorting.sort_by)
    /\ calls' = Append(calls, Returned("sort", None))
    /\ pc' = After("sort")
    /\ UNCHANGED <<env, filtering, ret, kwargs, cleaned_kwargs, page_number,
                   sorting>>

\* Line 246: filtering.filter(threads) reads filtering.show.
DispatchFilter ==
    /\ pc = "filter"
    /\ IF HasAttr(filtering, "show")
          THEN /\ threads' = filter(threads, filtering.show)
               /\ calls' = Append(calls, Returned("filter", None))
               /\ pc' = After("filter")
               /\ UNCHANGED ret
          ELSE /\ ret' = Raised("dispatch", "AttributeError", "show")
               /\ pc' = "raised"
               /\ UNCHANGED <<threads, calls>>
    /\ UNCHANGED <<env, filtering, kwargs, cleaned_kwargs, page_number, sorting>>

\* Lines 248-249: cleaned kwargs that differ from the url's redirect.
DispatchRedirect ==
    /\ pc = "compare"
    /\ cleaned_kwargs # kwargs
    /\ ret' = Returned("dispatch",
                       [redirect |-> reverse("misago:forum", cleaned_kwargs)])
    /\ pc' = "returned"
    /\ UNCHANGED <<env, filtering, threads, cleaned_kwargs, locals>>

DispatchCompare ==
    /\ pc = "compare"
    /\ cleaned_kwargs = kwargs
    /\ pc' = After("compare")
    /\ UNCHANGED <<env, filtering, threads, ret, cleaned_kwargs, locals>>

\* What a call on the Threads instance leaves behind: the call is logged,
\* and an exception leaves dispatch.
Called(outcome, step) ==
    /\ calls' = Append(calls, outcome)
    /\ IF "exc" \in DOMAIN outcome
          THEN ret' = [outcome EXCEPT !.op = "dispatch"] /\ pc' = "raised"
          ELSE UNCHANGED ret /\ pc' = After(step)

\* The page of the url is text; the paginator reads it as a number, and
\* None is the page not given.
PageArg(text) ==
    IF text = None THEN 0
    ELSE CHOOSE n \in 1..3 : <<"1", "2", "3">>[n] = text

\* Line 258: threads.list(page_number)
DispatchList(tie) ==
    /\ pc = "list"
    /\ LET pg == PageArg(page_number)
       IN /\ Called(ListOutcome(threads, forum, user, pg, tie), "list")
          /\ threads' = ListSelf(threads, forum, user, pg, tie)
    /\ UNCHANGED <<env, filtering, kwargs, cleaned_kwargs, page_number, sorting>>

\* Line 259: threads.page
DispatchPage ==
    /\ pc = "page"
    /\ Called(page(threads), "page")
    /\ UNCHANGED <<env, filtering, threads, kwargs, cleaned_kwargs,
                   page_number, sorting>>

\* Line 260: threads.paginator
DispatchPaginator ==
    /\ pc = "paginator"
    /\ Called(paginator(threads), "paginator")
    /\ UNCHANGED <<env, filtering, threads, kwargs, cleaned_kwargs,
                   page_number, sorting>>

\* The value a call on the Threads instance returned.
CallValue(op) ==
    LET i == CHOOSE k \in 1..Len(calls) : calls[k].op = op IN calls[i].val

\* Lines 251-264: render the template with the context.
DispatchRender ==
    /\ pc = "render"
    /\ ret' = Returned("dispatch",
                [template |-> "misago/threads/forum.html",
                 context |-> [link_name |-> "misago:forum",
                              links_params |-> cleaned_kwargs,
                              forum |-> forum,
                              threads |-> CallValue("list"),
                              page |-> CallValue("page"),
                              paginator |-> CallValue("paginator"),
                              sorting |-> sorting,
                              filtering |-> filtering]])
    /\ pc' = "returned"
    /\ UNCHANGED <<env, filtering, threads, cleaned_kwargs, locals>>

Next ==
    \/ DispatchParse
    \/ DispatchFiltering
    \/ DispatchSort
    \/ DispatchFilter
    \/ DispatchRedirect
    \/ DispatchCompare
    \/ \E tie \in TieBreaks : DispatchList(tie)
    \/ DispatchPage
    \/ DispatchPaginator
    \/ DispatchRender

Spec == Init /\ [][Next]_vars

(***************************************************************************)
(* Claims about ForumFiltering, checked under SpecFiltering.               *)
(***************************************************************************)
BuiltinKeys == <<"my-threads", "reported", "moderated-threads", "moderated-posts">>

Granted(acl, key) ==
    IF key = "my-threads" THEN acl.can_see_all_threads
    ELSE IF key = "reported" THEN acl.can_see_reports
    ELSE acl.can_review_moderated_content

\* C3: the available filters are exactly the built-in keys the ACL grants,
\* in the order my-threads, reported, moderated-threads, moderated-posts,
\* none of them a label filter, followed by one label filter per forum
\* label, in label order, whose type is the label's slug.
C3_AvailableFilters ==
    LET granted == SelectSeq(BuiltinKeys, LAMBDA k : Granted(forum.acl, k))
        nb == Len(granted)
        fl == filtering.filters
    IN /\ Len(fl) = nb + Len(forum.labels)
       /\ \A i \in 1..Len(fl) :
            IF i <= nb
                THEN fl[i].type = granted[i] /\ ~fl[i].is_label
                ELSE fl[i].type = forum.labels[i - nb].slug /\ fl[i].is_label

\* C3 witness: every ACL flag granted and two labels: six filters.
C3_Witness ==
    /\ forum.acl.can_see_all_threads
    /\ forum.acl.can_see_reports
    /\ forum.acl.can_review_moderated_content
    /\ Len(forum.labels) = 2
    /\ Len(filtering.filters) = 6

RemoveAt(seq, k) == [i \in 1..(Len(seq) - 1) |-> IF i < k THEN seq[i] ELSE seq[i + 1]]

\* C5: once the active filter is resolved, current is the entry whose type
\* is the active filter (the first, default entry when none is active) and
\* choices() is the list of entries with that one entry taken out: current
\* is not among the choices, and together they cover every entry once.
C5_CurrentAndChoices ==
    (/\ ret.op = "choices"
     /\ "val" \in DOMAIN ret
     /\ HasAttr(filtering, "_current"))
    => LET dicts == filtering["_dicts"]
           cur == filtering["_current"]
       IN /\ cur.type = filtering.show
          /\ (~Truthy(filtering.show) => cur = dicts[1])
          /\ \E k \in 1..Len(dicts) :
                /\ dicts[k] = cur
                /\ ret.val = RemoveAt(dicts, k)
          /\ \A i \in 1..Len(ret.val) : ret.val[i] # cur

(***************************************************************************)
(* Claims about ForumThreads, checked under SpecThreads.                   *)
(***************************************************************************)
Range(seq) == {seq[i] : i \in 1..Len(seq)}
Listed == ret.op = "list" /\ "val" \in DOMAIN ret

\* The rows of the forum the requester may see that pass the active filter.
Matching ==
    Range(filter_threads(threads, forum, user,
                         exclude_invisible_threads(user, forum, forum.thread_set)))

\* The direction and column the caller asked for.
AskedDescending == threads.sort_by[2][1] = "-"
AskedColumn == IF AskedDescending THEN threads.sort_by[2][2] ELSE threads.sort_by[2][1]

\* a comes strictly before b by (weight, column), both in the asked direction.
KeyBefore(a, b) ==
    LET c == AskedColumn IN
    IF AskedDescending
        THEN a.weight > b.weight \/ (a.weight = b.weight /\ a[c] > b[c])
        ELSE a.weight < b.weight \/ (a.weight = b.weight /\ a[c] < b[c])

\* The listed rows that are not announcements are exactly page `number` of
\* the rows in `pool`: they are distinct rows of the pool, they sit at the
\* positions after the (number - 1) full pages before them, and the page is
\* full unless it is the last one, which may run over by up to Orphans rows.
IsPageOf(rows, pool, number) ==
    LET bottom == (number - 1) * PerPage
        count == Cardinality(pool)
    IN /\ \A i \in 1..Len(rows) : rows[i] \in pool
       /\ \A i, j \in 1..Len(rows) : i # j => rows[i] # rows[j]
       /\ \/ Len(rows) = PerPage /\ count - (bottom + PerPage) > Orphans
          \/ /\ bottom + Len(rows) = count
             /\ Len(rows) <= PerPage + Orphans
       /\ \A i \in 1..Len(rows) :
            /\ Cardinality({t \in pool : KeyBefore(t, rows[i])}) < bottom + i
            /\ Cardinality({t \in pool : ~KeyBefore(rows[i], t)}) >= bottom + i

\* C1 as claimed: every matching pinned or announced thread is on every
\* page, and the rest of the list is the requested page of the regular
\* (neither pinned nor announced) threads.
C1_PinnedNeverPaginated ==
    Listed =>
        /\ \A t \in Matching : t.weight >= PINNED => t \in Range(ret.val)
        /\ IsPageOf(SelectSeq(ret.val, LAMBDA t : t.weight < PINNED),
                    {t \in Matching : t.weight < PINNED},
                    threads["_page"].number)

\* C1 as amended: every matching announcement is on every page, and the
\* rest of the list is the requested page of the matching threads below
\* announcement weight, pinned ones included.
C1_AnnouncementsNeverPaginated ==
    Listed =>
        /\ \A t \in Matching : t.weight = ANNOUNCEMENT => t \in Range(ret.val)
        /\ IsPageOf(SelectSeq(ret.val, LAMBDA t : t.weight # ANNOUNCEMENT),
                    {t \in Matching : t.weight < ANNOUNCEMENT},
                    threads["_page"].number)

\* C1 witness: the second page lists an announcement while a pinned thread
\* that matches is left on the first page.
C1_Witness ==
    /\ Listed
    /\ threads["_page"].number = 2
    /\ \E t \in Range(ret.val) : t.weight = ANNOUNCEMENT
    /\ \E t \in Matching : t.weight = PINNED /\ t \notin Range(ret.val)

\* The requester started the thread: a thread whose starter is gone has no
\* starter, and a guest is nobody's starter.
StartedByRequester(t) == user.authenticated /\ t.starter_id = user.id

\* The filter key mapped to its predicate, as the claim lists them.
KeyKeeps(t, key) ==
    IF key = "my-threads" THEN StartedByRequester(t)
    ELSE IF key = "reported" THEN t.has_reported_posts
    ELSE IF key = "moderated-threads" THEN t.is_moderated
    ELSE IF key = "moderated-posts" THEN t.has_moderated_posts
    ELSE \A i \in 1..Len(forum.labels) :
            (/\ forum.labels[i].slug = key
             /\ \A j \in 1..(i - 1) : forum.labels[j].slug # key)
            => t.label_id = forum.labels[i].pk

ClaimedKeeps(t, key) ==
    /\ KeyKeeps(t, key)
    /\ (key # "my-threads" /\ forum.acl.can_see_own_threads)
          => StartedByRequester(t)

\* C4: the rows list() draws from are the visible rows of the forum that
\* the predicate of the filter key keeps, restricted to the requester's own
\* threads when can_see_own_threads is set and the key is not my-threads.
C4_FilterPredicates ==
    Listed =>
        Matching = {t \in Range(forum.thread_set) :
                        t.visible /\ ClaimedKeeps(t, threads.filter_by)}

\* C6: page and paginator raise RuntimeError(error_message) until list()
\* has stored a page, and return what list() stored afterwards.
C6_NotLoadedIsRuntimeError ==
    /\ ret.op = "page" =>
          IF HasAttr(threads, "_page")
              THEN ret = [op |-> "page", val |-> threads["_page"]]
              ELSE ret = Raised("page", "RuntimeError", error_message)
    /\ ret.op = "paginator" =>
          IF HasAttr(threads, "_paginator")
              THEN ret = [op |-> "paginator", val |-> threads["_paginator"]]
              ELSE ret = Raised("paginator", "RuntimeError", error_message)

\* C7: in the list, the announcements come in (weight, column) order and so
\* do the paginated rows, both keys descending when the selector starts
\* with '-' and both ascending otherwise.
SameSection(a, b) == (a.weight = ANNOUNCEMENT) = (b.weight = ANNOUNCEMENT)

C7_WeightThenColumn ==
    Listed =>
        \A i, j \in 1..Len(ret.val) :
            (i < j /\ SameSection(ret.val[i], ret.val[j]))
                => ~KeyBefore(ret.val[j], ret.val[i])

\* C7 witness: a descending list whose paginated section holds a pinned
\* thread ahead of regular ones and two rows that differ in the column only.
C7_Witness ==
    /\ Listed
    /\ AskedDescending
    /\ Len(ret.val) >= 3
    /\ ret.val[1].weight = PINNED
    /\ \E i \in 2..Len(ret.val) : ret.val[i].weight < PINNED
    /\ \E i \in 1..(Len(ret.val) - 1) :
          /\ ret.val[i].weight = ret.val[i + 1].weight
          /\ ret.val[i].replies > ret.val[i + 1].replies

\* The filter values a requester can select: none, or one of the available
\* filters.
Selectable == {None} \cup AvailableTypes(filtering)

\* C9: under can_see_own_threads, whatever selectable filter is active,
\* every listed thread was started by the requester, and a guest is listed
\* nothing.
C9_OwnThreadsOnly ==
    (/\ Listed
     /\ forum.acl.can_see_own_threads
     /\ threads.filter_by \in Selectable)
    => /\ \A t \in Range(ret.val) : StartedByRequester(t)
       /\ ~user.authenticated => ret.val = <<>>

(***************************************************************************)
(* Claims about ForumView.dispatch, checked under Spec.                    *)
(***************************************************************************)
Done == pc \in {"returned", "raised"}
Redirected == pc = "returned" /\ "redirect" \in DOMAIN ret.val
CallOps == {calls[i].op : i \in 1..Len(calls)}

\* The request's 'show' is non-empty and is not the type of any filter the
\* forum makes available.
InvalidShow ==
    /\ "show" \in DOMAIN kwargs
    /\ Truthy(kwargs.show)
    /\ \A i \in 1..Len(get_available_filters(forum)) :
          get_available_filters(forum)[i].type # kwargs.show

\* C2: a request with an invalid 'show' ends in a redirect to the forum url
\* built from the kwargs without 'show'; nothing is raised, and no threads
\* are listed.
C2_InvalidShowRedirects ==
    (InvalidShow /\ Done) =>
        /\ Redirected
        /\ ret.val.redirect[1] = "misago:forum"
        /\ "show" \notin DOMAIN ret.val.redirect[2]
        /\ "list" \notin CallOps

\* The lookups list() put on the queryset.
AppliedLookups ==
    UNION {Range(calls[i].lookups) :
              i \in {k \in 1..Len(calls) : "lookups" \in DOMAIN calls[k]}}

\* C8: a moderation lookup is put on the queryset only under its ACL flag:
\* has_reported_posts under can_see_reports, is_moderated and
\* has_moderated_posts under can_review_moderated_content, and the
\* my-threads lookup under can_see_all_threads.
C8_LookupsNeedAcl ==
    \A l \in AppliedLookups :
        /\ l.field = "has_reported_posts" => forum.acl.can_see_reports
        /\ l.field \in {"is_moderated", "has_moderated_posts"}
              => forum.acl.can_review_moderated_content
        /\ l.line = 178 => forum.acl.can_see_all_threads

\* C10: list() is called only after sort and filter were applied, page and
\* paginator are read only after list() and never raise, and a dispatch
\* that redirects has not called list().
C10_DispatchOrder ==
    /\ \A i \in 1..Len(calls) :
          /\ calls[i].op = "list" =>
                /\ \E j \in 1..(i - 1) : calls[j].op = "sort"
                /\ \E j \in 1..(i - 1) : calls[j].op = "filter"
          /\ calls[i].op \in {"page", "paginator"} =>
                /\ \E j \in 1..(i - 1) : calls[j].op = "list"
                /\ "exc" \notin DOMAIN calls[i]
    /\ pc = "list" => HasAttr(threads, "sort_by") /\ HasAttr(threads, "filter_by")
    /\ Redirected => "list" \notin CallOps

\* C10 witness: a dispatch that rendered, having listed and then read the
\* page and the paginator.
C10_Witness ==
    /\ pc = "returned"
    /\ "template" \in DOMAIN ret.val
    /\ [i \in 1..Len(calls) |-> calls[i].op]
          = <<"sort", "filter", "list", "page", "paginator">>
====
